---- MODULE Spec2Model ----
(***************************************************************************)
(* EcoScanApp backend (src/backend/main.py): barcode validation, the       *)
(* recommendation rules, the ranking of alternatives and the two request   *)
(* handlers scan_product and get_product with their outbound calls.        *)
(*                                                                         *)
(* Conventions.  A Python str is a sequence of one-character strings.      *)
(* An Optional value, or a dict key that may be missing, is a sequence of  *)
(* length 0 (None / missing) or 1 (the value).  A carbon figure is an      *)
(* integer number of hundredths of a kg CO2e, so 2.0 is 200.               *)
(***************************************************************************)
EXTENDS Integers, Sequences, FiniteSets, TLC

VARIABLES
    req,        \* the frame of each request
    net,        \* the outbound calls of each request, in the order issued
    catalogue,  \* the products the upstream database holds
    fnIn,       \* the arguments of a function applied on its own
    fnOut       \* its result

vars == <<req, net, catalogue, fnIn, fnOut>>

(* ------------------------------ bounds -------------------------------- *)

\* longest search-result list drawn for fetch_alternatives (the code reads 5)
MaxResults == 6
\* longest packaging_tags list drawn for generate_recommendations
MaxTags == 2

(* ------------------------------ values -------------------------------- *)

None == <<>>
Some(x) == <<x>>
IsNone(o) == Len(o) = 0
Val(o) == o[1]

\* dict.get(key, default) on a key that is missing or present
Get(o, default) == IF IsNone(o) THEN default ELSE Val(o)

Min(a, b) == IF a < b THEN a ELSE b

(* ------------------------------ strings ------------------------------- *)

AsciiDigits == <<"0", "1", "2", "3", "4", "5", "6", "7", "8", "9">>
UpperCase == <<"A", "B", "C", "D", "E", "G", "I", "K", "L", "N", "O", "P", "S", "T", "U", "W">>
LowerCase == <<"a", "b", "c", "d", "e", "g", "i", "k", "l", "n", "o", "p", "s", "t", "u", "w">>

\* a digit that is not ASCII (ARABIC-INDIC DIGIT THREE): str.isdigit accepts it
ArabicThree == "U+0663"

Range(s) == {s[i] : i \in DOMAIN s}

\* str.isdigit on one character
IsDigitChar(c) == c \in Range(AsciiDigits) \cup {ArabicThree}

\* str.isdigit: every character is a digit and there is at least one
isdigit(s) == Len(s) > 0 /\ \A i \in DOMAIN s : IsDigitChar(s[i])

LowerChar(c) ==
    IF \E i \in DOMAIN UpperCase : UpperCase[i] = c
    THEN LowerCase[CHOOSE i \in DOMAIN UpperCase : UpperCase[i] = c]
    ELSE c

UpperChar(c) ==
    IF \E i \in DOMAIN LowerCase : LowerCase[i] = c
    THEN UpperCase[CHOOSE i \in DOMAIN LowerCase : LowerCase[i] = c]
    ELSE c

\* str.lower, str.upper
lower(s) == [i \in DOMAIN s |-> LowerChar(s[i])]
upper(s) == [i \in DOMAIN s |-> UpperChar(s[i])]

\* sub in s
Contains(sub, s) ==
    \E i \in 1..(Len(s) - Len(sub) + 1) : SubSeq(s, i, i + Len(sub) - 1) = sub

\* s.split(',')[0]
FirstSegment(s) ==
    IF \E i \in DOMAIN s : s[i] = ","
    THEN SubSeq(s, 1, (CHOOSE i \in DOMAIN s :
                          s[i] = "," /\ \A j \in 1..(i - 1) : s[j] # ",") - 1)
    ELSE s

\* str.strip
strip(s) ==
    IF \A i \in DOMAIN s : s[i] = " "
    THEN <<>>
    ELSE LET first == CHOOSE i \in DOMAIN s :
                          s[i] # " " /\ \A j \in 1..(i - 1) : s[j] = " "
             last == CHOOSE i \in DOMAIN s :
                         s[i] # " " /\ \A j \in (i + 1)..Len(s) : s[j] = " "
         IN  SubSeq(s, first, last)

\* f"{x:.2f}" of a figure held in hundredths
DigitsOf[n \in Nat] ==
    IF n < 10 THEN <<AsciiDigits[n + 1]>>
    ELSE DigitsOf[n \div 10] \o <<AsciiDigits[(n % 10) + 1]>>

Format2f(c) ==
    DigitsOf[c \div 100] \o <<".">>
        \o <<AsciiDigits[((c % 100) \div 10) + 1], AsciiDigits[(c % 10) + 1]>>

(* --------------------------- configuration ---------------------------- *)

CARBON_THRESHOLD == 200

GtinLengths == {8, 12, 13, 14}

\* the eco-grade score table and its default
scores == [g \in {<<"a">>, <<"b">>, <<"c">>, <<"d">>, <<"e">>} |->
              CASE g = <<"a">> -> 95
                [] g = <<"b">> -> 80
                [] g = <<"c">> -> 65
                [] g = <<"d">> -> 45
                [] g = <<"e">> -> 20]
DefaultScore == 50

(* --------------------------- barcode rules ---------------------------- *)

\* the test extract_gtin_from_image applies to a decoded payload
ValidGtin(gtin) == isdigit(gtin) /\ Len(gtin) \in GtinLengths

\* An uploaded image: its bytes are empty, or not an image (Image.open
\* raises), or an image with the payloads of the symbols pyzbar detects.  A
\* payload is text, or bytes that are not UTF-8 (NotUtf8).
NotUtf8 == <<"\\xff">>
EmptyImage == [kind |-> "empty", symbols |-> <<>>]
CorruptImage == [kind |-> "corrupt", symbols |-> <<>>]
Picture(symbols) == [kind |-> "picture", symbols |-> symbols]

extract_gtin_from_image(image_data) ==
    IF image_data.kind # "picture" THEN None              \* except Exception
    ELSE IF image_data.symbols = <<>> THEN None           \* not barcodes
    ELSE IF image_data.symbols[1] = NotUtf8 THEN None     \* except Exception
    ELSE IF ValidGtin(image_data.symbols[1]) THEN Some(image_data.symbols[1])
    ELSE None

(* ------------------------------ scoring ------------------------------- *)

\* eco_score is a str, or None (the empty sequence either way)
get_eco_score_value(eco_score) ==
    LET key == IF eco_score # <<>> THEN lower(eco_score) ELSE <<>>
    IN  IF key \in DOMAIN scores THEN scores[key] ELSE DefaultScore

Recommendation(icon, text, priority) ==
    [icon |-> icon, text |-> text, priority |-> priority]

CarbonRule(carbon_footprint) ==
    IF carbon_footprint # 0 /\ carbon_footprint > CARBON_THRESHOLD
    THEN <<Recommendation("globe",
              <<"High carbon footprint (">> \o Format2f(carbon_footprint)
                  \o <<" kg CO2e). Consider eco-friendly alternatives below.">>,
              "high")>>
    ELSE <<>>

EcoRule(eco_score) ==
    IF eco_score \in {<<"d">>, <<"e">>}
    THEN <<Recommendation("seedling",
              <<"Low environmental score - look for products with better eco ratings">>,
              "high")>>
    ELSE IF eco_score \in {<<"a">>, <<"b">>}
    THEN <<Recommendation("check",
              <<"Good environmental score! This product has lower environmental impact">>,
              "low")>>
    ELSE <<>>

NutriRule(nutri_score) ==
    IF nutri_score \in {<<"d">>, <<"e">>}
    THEN <<Recommendation("heart",
              <<"Nutrition score is ">> \o upper(nutri_score)
                  \o <<" - consider healthier options">>,
              "medium")>>
    ELSE <<>>

\* a slip: the tag is not lower-cased
PackagingRuleCaseSensitive(packaging) ==
    IF \E i \in DOMAIN packaging :
           Contains(<<"p", "l", "a", "s", "t", "i", "c">>, packaging[i])
    THEN <<Recommendation("recycle",
              <<"Contains plastic packaging - recycle properly or choose alternatives with less plastic">>,
              "medium")>>
    ELSE <<>>

PackagingRule(packaging) ==
    IF \E i \in DOMAIN packaging :
           Contains(<<"p", "l", "a", "s", "t", "i", "c">>, lower(packaging[i]))
    THEN <<Recommendation("recycle",
              <<"Contains plastic packaging - recycle properly or choose alternatives with less plastic">>,
              "medium")>>
    ELSE <<>>

DefaultRecommendation ==
    Recommendation("check",
        <<"This product has acceptable sustainability metrics">>, "low")

generate_recommendations(product_data, carbon_footprint) ==
    LET eco_score == Get(product_data.ecoscore_grade, <<>>)
        nutri_score == Get(product_data.nutriscore_grade, <<>>)
        packaging == Get(product_data.packaging_tags, <<>>)
        recommendations ==
            CarbonRule(carbon_footprint) \o EcoRule(eco_score)
                \o NutriRule(nutri_score) \o PackagingRule(packaging)
    IN  IF recommendations = <<>> THEN <<DefaultRecommendation>>
        ELSE recommendations

(* ------------------------------ products ------------------------------ *)

\* A product of the upstream database: every key may be missing.
\* ecoscore_data is a dict with the keys agribalyse and score, agribalyse a
\* dict with the key co2_total.  The image URL and the ingredients text are
\* passed through unread; they are drawn together with the two names.
\* Every key that is present carries a value of its documented type: JSON
\* nulls and mistyped values are not drawn.
Product(name, name_en, brands, categories, nutri, eco, packaging, ecodata) ==
    [product_name |-> name, product_name_en |-> name_en, brands |-> brands,
     image_front_url |-> name, categories |-> categories,
     ingredients_text_en |-> name_en, nutriscore_grade |-> nutri,
     ecoscore_grade |-> eco, packaging_tags |-> packaging,
     ecoscore_data |-> ecodata]

EcoscoreData(agribalyse, score) == [agribalyse |-> agribalyse, score |-> score]
Agribalyse(co2_total) == [co2_total |-> co2_total]

\* bool(d) of a dict: it has a key
DictTruthy(d) == \E k \in DOMAIN d : ~IsNone(d[k])

\* bool(x) of an Optional str, and of an Optional number
Truthy(o) == ~IsNone(o) /\ Val(o) # <<>>
TruthyNumber(o) == ~IsNone(o) /\ Val(o) # 0

\* lines 226-233 and 294-298: the carbon figure of a product
CarbonFootprint(product) ==
    LET ecoscore_data == Get(product.ecoscore_data, EcoscoreData(None, None))
    IN  IF DictTruthy(ecoscore_data)
        THEN Get(ecoscore_data.agribalyse, Agribalyse(None)).co2_total
        ELSE None

KgUnit == <<"kg CO2e/kg">>

\* scan_product sets the unit beside the figure, inside "if ecoscore_data"
ScanCarbonUnit(product) ==
    IF DictTruthy(Get(product.ecoscore_data, EcoscoreData(None, None)))
    THEN Some(KgUnit) ELSE None

\* get_product sets it in the response: "kg CO2e/kg" if carbon_footprint else None
GetCarbonUnit(carbon_footprint) ==
    IF TruthyNumber(carbon_footprint) THEN Some(KgUnit) ELSE None

\* a slip: >= for >
IsHighCarbonInclusive(carbon_footprint) ==
    ~IsNone(carbon_footprint) /\ Val(carbon_footprint) >= CARBON_THRESHOLD

IsHighCarbon(carbon_footprint) ==
    ~IsNone(carbon_footprint) /\ Val(carbon_footprint) > CARBON_THRESHOLD

\* carbon_footprint or 0
OrZero(carbon_footprint) ==
    IF TruthyNumber(carbon_footprint) THEN Val(carbon_footprint) ELSE 0

(* ---------------------------- alternatives ---------------------------- *)

\* one product of a search result
Candidate(name, brands, eco, code) ==
    [product_name |-> name, brands |-> brands, ecoscore_grade |-> eco,
     image_front_small_url |-> name, code |-> code]

\* a slip: "if category is None" for "if not category"
HasCategoryKey(category) == ~IsNone(category)

\* "if not category: return []"
HasCategory(category) == Truthy(category)

\* the tag the search is filtered by
SearchTag(category) == strip(FirstSegment(Val(category)))

PageSize == 5
MaxAlternatives == 3

Alternative(product) ==
    [name |-> Get(product.product_name, <<"Unknown">>),
     brand |-> Get(product.brands, <<"Unknown">>),
     eco_score |-> Get(product.ecoscore_grade, <<>>),
     image_url |-> product.image_front_small_url,
     gtin |-> product.code]

\* a slip: >= for >
AtLeastAsGood(current_score, product) ==
    get_eco_score_value(Get(product.ecoscore_grade, <<>>)) >= current_score

BetterThan(current_score, product) ==
    get_eco_score_value(Get(product.ecoscore_grade, <<>>)) > current_score

\* the ranking of a parsed search response
SelectAlternatives(data, current_eco_score) ==
    LET products == Get(data.products, <<>>)
        firstPage == SubSeq(products, 1, Min(PageSize, Len(products)))
        current_score == get_eco_score_value(current_eco_score)
        better == SelectSeq(firstPage, LAMBDA p : BetterThan(current_score, p))
        alternatives == [i \in DOMAIN better |-> Alternative(better[i])]
    IN  SubSeq(alternatives, 1, Min(MaxAlternatives, Len(alternatives)))

\* fetch_alternatives, given the reply its GET meets if it issues one
fetch_alternatives(category, current_eco_score, reply) ==
    IF ~HasCategory(category) THEN <<>>
    ELSE IF reply.kind # "json" THEN <<>>       \* except Exception
    ELSE SelectAlternatives(reply, current_eco_score)

(* ------------------------------ responses ----------------------------- *)

\* the defaults of the ProductResponse fields
ProductResponse ==
    [status |-> "", gtin |-> None, name |-> None, brand |-> None,
     image_url |-> None, category |-> None, ingredients_text |-> None,
     nutri_score |-> None, eco_score |-> None, carbon_footprint |-> None,
     carbon_footprint_unit |-> None, is_high_carbon |-> FALSE,
     recommendations |-> <<>>, alternatives |-> <<>>, source |-> None,
     message |-> None]

Returned(response) == [http |-> 200, detail |-> "", body |-> Some(response)]
HTTPException(status_code, detail) ==
    [http |-> status_code, detail |-> detail, body |-> None]
NoResult == [http |-> 0, detail |-> "", body |-> None]

NoBarcodeResponse ==
    [ProductResponse EXCEPT
        !.status = "not_found",
        !.message = Some(<<"No barcode detected. Please ensure the barcode is clearly visible.">>)]

ScanNotFoundResponse(gtin) ==
    [ProductResponse EXCEPT
        !.status = "not_found",
        !.gtin = Some(gtin),
        !.message = Some(<<"Product with barcode ">> \o gtin \o <<" not found in database.">>)]

GetNotFoundResponse(gtin) ==
    [ProductResponse EXCEPT
        !.status = "not_found",
        !.gtin = Some(gtin),
        !.message = Some(<<"Product with barcode ">> \o gtin \o <<" not found.">>)]

\* product.get('product_name') or product.get('product_name_en', 'Unknown Product')
ProductName(product) ==
    IF Truthy(product.product_name) THEN product.product_name
    ELSE Some(Get(product.product_name_en, <<"Unknown Product">>))

SuccessResponse(gtin, product, carbon_footprint, carbon_unit, is_high_carbon, recommendations, alternatives) ==
    [status |-> "success",
     gtin |-> Some(gtin),
     name |-> ProductName(product),
     brand |-> Some(Get(product.brands, <<"Unknown Brand">>)),
     image_url |-> product.image_front_url,
     category |-> product.categories,
     ingredients_text |-> product.ingredients_text_en,
     nutri_score |-> product.nutriscore_grade,
     eco_score |-> product.ecoscore_grade,
     carbon_footprint |-> carbon_footprint,
     carbon_footprint_unit |-> carbon_unit,
     is_high_carbon |-> is_high_carbon,
     recommendations |-> recommendations,
     alternatives |-> alternatives,
     source |-> Some(<<"OpenFoodFacts">>),
     message |-> None]

\* a slip: the status field is not read
NotFoundIgnoringStatus(data) ==
    IF IsNone(data.product) THEN TRUE ELSE ~DictTruthy(Val(data.product))

\* "not data.get('product') or data.get('status') == 0"
NotFound(data) ==
    IF IsNone(data.product) THEN TRUE
    ELSE IF ~DictTruthy(Val(data.product)) THEN TRUE
    ELSE data.status = 0

(* ------------------------------ requests ------------------------------ *)

Reqs == {1, 2}

\* The frame of one request: its endpoint and input (image for scan_product,
\* path for get_product), where it is suspended, its locals, its result.
Frame(endpoint, image, path) ==
    [endpoint |-> endpoint, image |-> image, path |-> path, pc |-> "start",
     gtin |-> None, product |-> None, carbon_footprint |-> None,
     carbon_unit |-> None, is_high_carbon |-> FALSE,
     recommendations |-> <<>>, result |-> NoResult]

\* a slot no request has arrived on
Idle == [Frame("none", EmptyImage, <<>>) EXCEPT !.pc = "idle"]

\* One outbound GET: the endpoint, what is asked (the barcode, or the
\* category tag), and the reply once there is one.
Call(url, arg) == [url |-> url, arg |-> arg, reply |-> None]

\* A reply: the call raised (connection error, timeout), or the body was
\* not JSON, or the parsed JSON.
Failure(kind) == [kind |-> kind, status |-> 1, product |-> None, products |-> None]
ProductJson(status, product) ==
    [kind |-> "json", status |-> status, product |-> product, products |-> None]
SearchJson(products) ==
    [kind |-> "json", status |-> 1, product |-> None, products |-> products]

FailureKinds == {"neterror", "timeout", "notjson"}

\* the calls of a request: one more is issued; the last one is answered
Issue(calls, url, arg) == Append(calls, Call(url, arg))
Answer(calls, reply) == [calls EXCEPT ![Len(calls)].reply = Some(reply)]

\* a slip: one response object at module level, shared by the requests
FinishShared(r, result) ==
    [q \in Reqs |->
        IF q = r \/ req[q].pc = "done"
        THEN [Frame(req[q].endpoint, req[q].image, req[q].path) EXCEPT
                 !.pc = "done", !.result = result]
        ELSE req[q]]

\* the handler returns or raises: its locals are gone, its result stands
Finish(r, result) ==
    [req EXCEPT ![r] = [Frame(req[r].endpoint, req[r].image, req[r].path) EXCEPT
                           !.pc = "done", !.result = result]]

(* ------------------------------- inputs ------------------------------- *)

\* a string of n ASCII digits
DigitString(n) == [i \in 1..n |-> AsciiDigits[(i % 10) + 1]]

\* 13 characters with a letter among them; 8 digits of which one is not ASCII
LetterCode == [DigitString(13) EXCEPT ![5] = "x"]
ArabicCode == [DigitString(8) EXCEPT ![1] = ArabicThree]

Codes ==
    {DigitString(n) : n \in {3, 7, 8, 9, 12, 13, 14, 15}} \cup {LetterCode, ArabicCode}

Images ==
    {EmptyImage, CorruptImage, Picture(<<>>), Picture(<<NotUtf8>>)}
        \cup {Picture(<<c>>) : c \in Codes}
        \cup {Picture(<<DigitString(13), LetterCode>>),
              Picture(<<LetterCode, DigitString(13)>>)}

AllInputs ==
    {Frame("scan", i, <<>>) : i \in Images}
        \cup {Frame("get", EmptyImage, c) : c \in Codes}

\* the inputs of two requests handled at the same time
PairCodes == {DigitString(7), DigitString(8), DigitString(13)}
PairInputs ==
    {Frame("scan", i, <<>>) : i \in {EmptyImage} \cup {Picture(<<c>>) : c \in PairCodes}}
        \cup {Frame("get", EmptyImage, c) : c \in PairCodes}

(* --------------------------- upstream replies ------------------------- *)

PlasticWrap == <<"P", "l", "a", "s", "t", "i", "c", " ", "w", "r", "a", "p">>
Glass == <<"e", "n", ":", "g", "l", "a", "s", "s">>
TeaCategory == <<" ", "t", "e", "a", " ", ",", "o", "o", "l", "o", "n", "g">>

Profiles ==
    {[name |-> Some(<<"Oat Drink">>), name_en |-> Some(<<"Oat Drink (en)">>),
      brands |-> Some(<<"Oatly">>), nutri |-> None, eco |-> Some(<<"a">>),
      packaging |-> None],
     [name |-> None, name_en |-> Some(<<"Crisps">>), brands |-> None,
      nutri |-> Some(<<"e">>), eco |-> Some(<<"d">>),
      packaging |-> Some(<<PlasticWrap>>)],
     [name |-> Some(<<>>), name_en |-> None, brands |-> Some(<<"Teekanne">>),
      nutri |-> Some(<<"b">>), eco |-> None, packaging |-> Some(<<Glass>>)]}

Categories == {None, Some(<<>>), Some(TeaCategory)}

CarbonFigures == {0, 50, 200, 201, 350}

EcoShapes ==
    {None,
     Some(EcoscoreData(None, None)),
     Some(EcoscoreData(None, Some(40))),
     Some(EcoscoreData(Some(Agribalyse(None)), None))}
        \cup {Some(EcoscoreData(Some(Agribalyse(Some(c))), Some(40))) : c \in CarbonFigures}

EmptyProduct == Product(None, None, None, None, None, None, None, None)

Products ==
    {Product(p.name, p.name_en, p.brands, c, p.nutri, p.eco, p.packaging, e) :
        p \in Profiles, c \in Categories, e \in EcoShapes} \cup {EmptyProduct}

SampleProduct ==
    Product(Some(<<"Oat Drink">>), None, None, Some(TeaCategory), None,
            Some(<<"a">>), None, None)

\* the products drawn when two requests are handled at the same time
PairProducts ==
    {p \in Products :
        /\ p.product_name # Some(<<>>)
        /\ p.categories # Some(<<>>)
        /\ p.ecoscore_data \in
              {None, Some(EcoscoreData(Some(Agribalyse(None)), None)),
               Some(EcoscoreData(Some(Agribalyse(Some(0))), Some(40))),
               Some(EcoscoreData(Some(Agribalyse(Some(350))), Some(40)))}}

\* the JSON bodies the product endpoint can answer with
PrimaryData ==
    {ProductJson(1, Some(p)) : p \in catalogue}
        \cup {ProductJson(0, Some(SampleProduct)), ProductJson(0, None),
              ProductJson(1, None)}

\* the i-th product of a search result, of the given grade
NthCandidate(i, eco) ==
    Candidate(IF i % 2 = 0 THEN None ELSE Some(<<"Candidate">>),
              IF i % 3 = 0 THEN None ELSE Some(<<"Brand">>),
              eco, Some(DigitsOf[i]))

SampleGrades == <<Some(<<"a">>), Some(<<"e">>), Some(<<"B">>), None, Some(<<"a">>), Some(<<"a">>)>>
SampleResults == [i \in DOMAIN SampleGrades |-> NthCandidate(i, SampleGrades[i])]

SearchData == {SearchJson(None), SearchJson(Some(SampleResults))}

(* ------------------------------ handlers ------------------------------ *)

\* scan_product is entered and suspends on "await image.read()"
ScanStart(r) ==
    /\ req[r].pc = "start" /\ req[r].endpoint = "scan"
    /\ req' = [req EXCEPT ![r].pc = "read"]
    /\ UNCHANGED <<net, catalogue, fnIn, fnOut>>

\* "if not image_data: raise HTTPException(400)"
ScanRejects(r) ==
    /\ req[r].pc = "read"
    /\ req[r].image.kind = "empty"
    /\ req' = Finish(r, HTTPException(400, "Empty image file"))
    /\ UNCHANGED <<net, catalogue, fnIn, fnOut>>

\* "if not gtin: return ProductResponse(status='not_found', ...)"
ScanNoBarcode(r) ==
    /\ req[r].pc = "read"
    /\ req[r].image.kind # "empty"
    /\ IsNone(extract_gtin_from_image(req[r].image))
    /\ req' = Finish(r, Returned(NoBarcodeResponse))
    /\ UNCHANGED <<net, catalogue, fnIn, fnOut>>

\* a barcode was read: the primary lookup is issued
ScanLooksUp(r) ==
    /\ req[r].pc = "read"
    /\ req[r].image.kind # "empty"
    /\ LET gtin == extract_gtin_from_image(req[r].image)
       IN  /\ ~IsNone(gtin)
           /\ req' = [req EXCEPT ![r].gtin = gtin, ![r].pc = "primary"]
           /\ net' = [net EXCEPT ![r] = Issue(@, "product", Val(gtin))]
    /\ UNCHANGED <<catalogue, fnIn, fnOut>>

\* a slip: the barcode is looked up first and validated afterwards
GetRejectsAfterLookup(r) ==
    /\ req[r].pc = "start" /\ req[r].endpoint = "get"
    /\ ~isdigit(req[r].path) \/ Len(req[r].path) \notin GtinLengths
    /\ req' = Finish(r, HTTPException(400, "Invalid barcode format"))
    /\ net' = [net EXCEPT ![r] = Answer(Issue(@, "product", req[r].path),
                                        ProductJson(0, None))]
    /\ UNCHANGED <<catalogue, fnIn, fnOut>>

\* get_product: "if not gtin.isdigit() or len(gtin) not in [8, 12, 13, 14]"
GetRejects(r) ==
    /\ req[r].pc = "start" /\ req[r].endpoint = "get"
    /\ ~isdigit(req[r].path) \/ Len(req[r].path) \notin GtinLengths
    /\ req' = Finish(r, HTTPException(400, "Invalid barcode format"))
    /\ UNCHANGED <<net, catalogue, fnIn, fnOut>>

GetLooksUp(r) ==
    /\ req[r].pc = "start" /\ req[r].endpoint = "get"
    /\ ~(~isdigit(req[r].path) \/ Len(req[r].path) \notin GtinLengths)
    /\ req' = [req EXCEPT ![r].gtin = Some(req[r].path), ![r].pc = "primary"]
    /\ net' = [net EXCEPT ![r] = Issue(@, "product", req[r].path)]
    /\ UNCHANGED <<catalogue, fnIn, fnOut>>

\* a slip: a failed lookup is tried again
PrimaryFailsAndRetries(r) ==
    /\ req[r].pc = "primary"
    /\ \E kind \in FailureKinds :
          net' = [net EXCEPT ![r] = Issue(Answer(@, Failure(kind)), "product",
                                          Val(req[r].gtin))]
    /\ Len(net[r]) < 3
    /\ UNCHANGED <<req, catalogue, fnIn, fnOut>>

\* the primary lookup raises inside the try: HTTPException(500)
PrimaryFails(r) ==
    /\ req[r].pc = "primary"
    /\ \E kind \in FailureKinds : net' = [net EXCEPT ![r] = Answer(@, Failure(kind))]
    /\ req' = Finish(r, HTTPException(500, "Failed to fetch product data"))
    /\ UNCHANGED <<catalogue, fnIn, fnOut>>

\* the primary lookup answers "no such product"
PrimaryNotFound(r) ==
    /\ req[r].pc = "primary"
    /\ \E data \in PrimaryData :
          /\ NotFound(data)
          /\ net' = [net EXCEPT ![r] = Answer(@, data)]
    /\ req' = Finish(r, Returned(IF req[r].endpoint = "scan"
                                 THEN ScanNotFoundResponse(Val(req[r].gtin))
                                 ELSE GetNotFoundResponse(Val(req[r].gtin))))
    /\ UNCHANGED <<catalogue, fnIn, fnOut>>

\* the locals both handlers compute from a found product
Scored(endpoint, product) ==
    LET carbon_footprint == CarbonFootprint(product)
    IN  [product |-> Some(product),
         carbon_footprint |-> carbon_footprint,
         carbon_unit |-> IF endpoint = "scan" THEN ScanCarbonUnit(product)
                         ELSE GetCarbonUnit(carbon_footprint),
         is_high_carbon |-> IsHighCarbon(carbon_footprint),
         recommendations |-> generate_recommendations(product, OrZero(carbon_footprint))]

\* the success response built from a frame's locals
Success(f, alternatives) ==
    Returned(SuccessResponse(Val(f.gtin), Val(f.product), f.carbon_footprint,
                             f.carbon_unit, f.is_high_carbon, f.recommendations,
                             alternatives))

WithLocals(f, l) ==
    [f EXCEPT !.product = l.product, !.carbon_footprint = l.carbon_footprint,
              !.carbon_unit = l.carbon_unit, !.is_high_carbon = l.is_high_carbon,
              !.recommendations = l.recommendations]

\* a product is found and no search follows: not high carbon, or
\* fetch_alternatives returns [] for want of a category
PrimaryFound(r) ==
    /\ req[r].pc = "primary"
    /\ \E data \in PrimaryData :
          /\ ~NotFound(data)
          /\ LET f == WithLocals(req[r], Scored(req[r].endpoint, Val(data.product)))
             IN  /\ ~(f.is_high_carbon /\ HasCategory(Val(f.product).categories))
                 /\ req' = Finish(r, Success(f, <<>>))
          /\ net' = [net EXCEPT ![r] = Answer(@, data)]
    /\ UNCHANGED <<catalogue, fnIn, fnOut>>

\* a product is found, high carbon and with a category: the search is issued
PrimaryFoundSearches(r) ==
    /\ req[r].pc = "primary"
    /\ \E data \in PrimaryData :
          /\ ~NotFound(data)
          /\ LET f == WithLocals(req[r], Scored(req[r].endpoint, Val(data.product)))
             IN  /\ f.is_high_carbon /\ HasCategory(Val(f.product).categories)
                 /\ req' = [req EXCEPT ![r] = [f EXCEPT !.pc = "search"]]
                 /\ net' = [net EXCEPT ![r] =
                               Issue(Answer(@, data), "search",
                                     SearchTag(Val(f.product).categories))]
    /\ UNCHANGED <<catalogue, fnIn, fnOut>>

\* a slip: a failed search is surfaced like a failed lookup
SearchFailsAndRaises(r) ==
    /\ req[r].pc = "search"
    /\ \E kind \in FailureKinds :
          net' = [net EXCEPT ![r] = Answer(@, Failure(kind))]
    /\ req' = Finish(r, HTTPException(500, "Failed to fetch product data"))
    /\ UNCHANGED <<catalogue, fnIn, fnOut>>

\* the search raises, or its body is not JSON: fetch_alternatives returns []
SearchFails(r) ==
    /\ req[r].pc = "search"
    /\ \E kind \in FailureKinds :
          /\ net' = [net EXCEPT ![r] = Answer(@, Failure(kind))]
          /\ req' = Finish(r, Success(req[r],
                        fetch_alternatives(Val(req[r].product).categories,
                            Get(Val(req[r].product).ecoscore_grade, <<>>),
                            Failure(kind))))
    /\ UNCHANGED <<catalogue, fnIn, fnOut>>

\* the search answers: its products are ranked
SearchReturns(r) ==
    /\ req[r].pc = "search"
    /\ \E data \in SearchData :
          /\ net' = [net EXCEPT ![r] = Answer(@, data)]
          /\ req' = Finish(r, Success(req[r],
                        fetch_alternatives(Val(req[r].product).categories,
                            Get(Val(req[r].product).ecoscore_grade, <<>>),
                            data)))
    /\ UNCHANGED <<catalogue, fnIn, fnOut>>

Step(r) ==
    \/ ScanStart(r)
    \/ ScanRejects(r)
    \/ ScanNoBarcode(r)
    \/ ScanLooksUp(r)
    \/ GetRejects(r)
    \/ GetLooksUp(r)
    \/ PrimaryFails(r)
    \/ PrimaryNotFound(r)
    \/ PrimaryFound(r)
    \/ PrimaryFoundSearches(r)
    \/ SearchFails(r)
    \/ SearchReturns(r)

Next == \E r \in Reqs : Step(r)

NoCall == [r \in Reqs |-> <<>>]
NotApplied == [done |-> FALSE, value |-> <<>>]

\* one request arrives, with any input
Init ==
    /\ \E f \in AllInputs : req = [r \in Reqs |-> IF r = 1 THEN f ELSE Idle]
    /\ net = NoCall
    /\ catalogue = Products
    /\ fnIn = <<>>
    /\ fnOut = NotApplied

Spec == Init /\ [][Next]_vars

\* every call is answered or times out (timeout=10.0), and the event loop
\* resumes every handler whose await has completed
FairSpec == Spec /\ \A r \in Reqs : WF_vars(Step(r))

\* two requests are handled at the same time
InitPair ==
    /\ req \in [Reqs -> PairInputs]
    /\ net = NoCall
    /\ catalogue = PairProducts
    /\ fnIn = <<>>
    /\ fnOut = NotApplied

SpecPair == InitPair /\ [][Next]_vars

(* --------------------- the pure functions on their own ---------------- *)

Grades ==
    {<<>>, <<"a">>, <<"b">>, <<"c">>, <<"d">>, <<"e">>, <<"B">>,
     <<"u", "n", "k", "n", "o", "w", "n">>}

CandidateGrades == {None, Some(<<"a">>), Some(<<"B">>), Some(<<"d">>)}

\* every list of at most n elements of S
SeqsUpTo(S, n) == UNION {[1..k -> S] : k \in 0..n}

ResultLists ==
    {[i \in DOMAIN g |-> NthCandidate(i, g[i])] : g \in SeqsUpTo(CandidateGrades, MaxResults)}

AltInputs ==
    [category : Categories,
     current_eco_score : Grades,
     reply : {Failure("timeout"), SearchJson(None)}
                 \cup {SearchJson(Some(l)) : l \in ResultLists}]

InitAlt ==
    /\ req = [r \in Reqs |-> Idle]
    /\ net = NoCall
    /\ catalogue = {}
    /\ fnIn \in AltInputs
    /\ fnOut = NotApplied

ApplyFetchAlternatives ==
    /\ ~fnOut.done
    /\ fnOut' = [done |-> TRUE,
                 value |-> fetch_alternatives(fnIn.category,
                               fnIn.current_eco_score, fnIn.reply)]
    /\ UNCHANGED <<req, net, catalogue, fnIn>>

SpecAlt == InitAlt /\ [][ApplyFetchAlternatives]_vars

Tags ==
    {PlasticWrap, Glass,
     <<"e", "n", ":", "P", "L", "A", "S", "T", "I", "C">>,
     <<"p", "l", "a", "s", "t", "e", "r">>}

GradeKeys == {None} \cup {Some(g) : g \in Grades \cup {<<"D">>, <<"E">>}}

RecInputs ==
    [product_data :
        {Product(None, None, None, None, n, e, p, None) :
            n \in GradeKeys, e \in GradeKeys,
            p \in {None} \cup {Some(t) : t \in SeqsUpTo(Tags, MaxTags)}},
     carbon_footprint : CarbonFigures]

InitRec ==
    /\ req = [r \in Reqs |-> Idle]
    /\ net = NoCall
    /\ catalogue = {}
    /\ fnIn \in RecInputs
    /\ fnOut = NotApplied

ApplyGenerateRecommendations ==
    /\ ~fnOut.done
    /\ fnOut' = [done |-> TRUE,
                 value |-> generate_recommendations(fnIn.product_data,
                               fnIn.carbon_footprint)]
    /\ UNCHANGED <<req, net, catalogue, fnIn>>

SpecRec == InitRec /\ [][ApplyGenerateRecommendations]_vars

(* ------------------------------- claims ------------------------------- *)

Done(r) == req[r].pc = "done"
Http(r) == req[r].result.http
Body(r) == Val(req[r].result.body)
Responded(r) == Done(r) /\ Http(r) = 200
Replied(r, i) == Val(net[r][i].reply)
SearchCalls(r) == {i \in DOMAIN net[r] : net[r][i].url = "search"}
PrimaryCalls(r) == {i \in DOMAIN net[r] : net[r][i].url = "product"}

\* "all-digit" and "length in {8,12,13,14}", as the claims word them
AllDigit(code) == \A i \in DOMAIN code : IsDigitChar(code[i])
GtinLength(code) == Len(code) = 8 \/ Len(code) = 12 \/ Len(code) = 13 \/ Len(code) = 14

\* C1: client input errors are rejected before any network call.  get_product
\* answers 400 if and only if the code is not all-digit or its length is not
\* 8, 12, 13 or 14; scan_product answers 400 when the image is empty; a
\* request that ended in 400 has made no outbound call.
C1_ClientErrorsBeforeAnyCall ==
    \A r \in Reqs :
        Done(r) =>
            /\ req[r].endpoint = "get" =>
                  (Http(r) = 400 <=> ~AllDigit(req[r].path) \/ ~GtinLength(req[r].path))
            /\ req[r].endpoint = "scan" /\ req[r].image.kind = "empty" => Http(r) = 400
            /\ Http(r) = 400 => net[r] = <<>>

\* a 13-character code with a letter in it has been rejected
C1_Witness ==
    \E r \in Reqs :
        /\ Done(r) /\ req[r].endpoint = "get" /\ req[r].path = LetterCode
        /\ Http(r) = 400 /\ net[r] = <<>>

\* C3: in every response of either handler, is_high_carbon is true if and
\* only if carbon_footprint is defined and greater than 2.0; a not_found
\* response has is_high_carbon false.
C3_CarbonFlag ==
    \A r \in Reqs :
        Responded(r) =>
            /\ Body(r).is_high_carbon <=>
                  (Body(r).carbon_footprint # None /\ Val(Body(r).carbon_footprint) > 200)
            /\ Body(r).status = "not_found" => ~Body(r).is_high_carbon

\* a product whose figure is exactly 2.0 has been answered, flag false
C3_Witness ==
    \E r \in Reqs :
        /\ Responded(r) /\ Body(r).status = "success"
        /\ Body(r).carbon_footprint = Some(200) /\ ~Body(r).is_high_carbon

\* the carbon figure and the category of the product a primary reply carries,
\* read off the JSON
ReplyFigure(reply) ==
    IF reply.kind # "json" \/ IsNone(reply.product) THEN None
    ELSE LET ecoscore_data == Val(reply.product).ecoscore_data
         IN  IF IsNone(ecoscore_data) THEN None
             ELSE IF IsNone(Val(ecoscore_data).agribalyse) THEN None
             ELSE Val(Val(ecoscore_data).agribalyse).co2_total
ReplyCategory(reply) ==
    IF reply.kind # "json" \/ IsNone(reply.product) THEN None
    ELSE Val(reply.product).categories

\* C4: a search call is issued only if the primary lookup returned a product
\* whose carbon figure is present and above 2.0 and whose category string is
\* present and non-empty; a request that made no search call and returned a
\* response returned an empty alternatives list.
C4_SearchIsConditional ==
    \A r \in Reqs :
        /\ SearchCalls(r) # {} =>
              /\ Len(net[r]) >= 2 /\ net[r][1].url = "product" /\ net[r][1].reply # None
              /\ Replied(r, 1).kind = "json" /\ Replied(r, 1).status # 0
              /\ ReplyFigure(Replied(r, 1)) # None
              /\ Val(ReplyFigure(Replied(r, 1))) > 200
              /\ ReplyCategory(Replied(r, 1)) # None
              /\ Val(ReplyCategory(Replied(r, 1))) # <<>>
        /\ Responded(r) /\ SearchCalls(r) = {} => Body(r).alternatives = <<>>

\* a search has been issued and answered with alternatives
C4_Witness ==
    \E r \in Reqs :
        /\ Responded(r) /\ SearchCalls(r) # {}
        /\ Body(r).alternatives # <<>>

\* the extractor's "no barcode" cases on a non-empty image, as C7 words them
NoBarcodeIn(image) ==
    \/ image.kind = "corrupt"
    \/ image.kind = "picture" /\ image.symbols = <<>>
    \/ image.kind = "picture" /\ image.symbols # <<>> /\ image.symbols[1] = NotUtf8
    \/ image.kind = "picture" /\ image.symbols # <<>> /\ image.symbols[1] # NotUtf8
           /\ (~AllDigit(image.symbols[1]) \/ ~GtinLength(image.symbols[1]))

\* C7: not-found is a terminal outcome and no error.  (i) A scan whose image
\* yields no barcode ends with status "not_found", no gtin, and no outbound
\* call.  (ii) In both handlers a primary reply with status 0 or no product
\* ends the request with status "not_found" carrying the queried barcode,
\* empty recommendations and alternatives, and no search call.
C7_NotFoundIsTerminal ==
    \A r \in Reqs :
        /\ req[r].endpoint = "scan" /\ NoBarcodeIn(req[r].image) =>
              /\ net[r] = <<>>
              /\ req[r].pc \in {"start", "read", "done"}
              /\ Done(r) =>
                    /\ Http(r) = 200 /\ Body(r).status = "not_found"
                    /\ Body(r).gtin = None /\ Body(r).message # None
        /\ /\ Len(net[r]) >= 1 /\ net[r][1].reply # None
           /\ Replied(r, 1).kind = "json"
           /\ (Replied(r, 1).status = 0 \/ Replied(r, 1).product = None)
           => /\ Done(r) /\ Http(r) = 200 /\ Body(r).status = "not_found"
              /\ Body(r).gtin = Some(net[r][1].arg)
              /\ Body(r).recommendations = <<>> /\ Body(r).alternatives = <<>>
              /\ Len(net[r]) = 1

\* status 0 came with a product object, and the request ended not_found
C7_Witness ==
    \E r \in Reqs :
        /\ Done(r) /\ Len(net[r]) = 1
        /\ net[r][1].reply = Some(ProductJson(0, Some(SampleProduct)))
        /\ Body(r).status = "not_found"

Failed(reply) == reply.kind # "json"
Pending(call) == call.reply = None

\* what C8 says of the calls and the result of one request, in any state
C8_Sequential(r) ==
    /\ Cardinality(PrimaryCalls(r)) <= 1
    /\ Cardinality(SearchCalls(r)) <= 1
    \* the search comes after the answer to the primary lookup: a found product
    /\ SearchCalls(r) # {} =>
          /\ PrimaryCalls(r) = {1} /\ SearchCalls(r) = {2}
          /\ ~Pending(net[r][1])
          /\ ~Failed(Replied(r, 1))
          /\ Replied(r, 1).product # None /\ Replied(r, 1).status # 0
    \* scan_product has decoded the barcode it asks for
    /\ req[r].endpoint = "scan" /\ net[r] # <<>> =>
          /\ req[r].pc \notin {"start", "read"}
          /\ net[r][1].arg = req[r].image.symbols[1]
    \* no call follows a call that is pending or has failed
    /\ \A i \in DOMAIN net[r] :
          (Pending(net[r][i]) \/ Failed(Replied(r, i))) => i = Len(net[r])
    /\ Done(r) =>
          /\ \A i \in DOMAIN net[r] : ~Pending(net[r][i])
          /\ \/ Http(r) \in {400, 500} /\ req[r].result.body = None
             \/ Http(r) = 200 /\ Body(r).status \in {"not_found", "success"}

\* C8: the outbound calls of a request are sequential and never retried (at
\* most one primary lookup, at most one search, the search only after the
\* lookup found a product, the lookup only after the barcode is decoded, no
\* call after a failed one); a finished request stays as it is; and every
\* request eventually ends in 400, 500, not_found or success.
C8_SequentialAndTerminates ==
    /\ [](\A r \in Reqs : C8_Sequential(r))
    /\ [][\A r \in Reqs : Done(r) => req'[r] = req[r] /\ net'[r] = net[r]]_vars
    /\ \A r \in Reqs : (req[r].pc # "idle") ~> Done(r)

\* a request has ended after its search timed out
C8_Witness ==
    \E r \in Reqs :
        /\ Done(r) /\ Len(net[r]) = 2
        /\ net[r][2].reply = Some(Failure("timeout"))
        /\ Http(r) = 200

SameInput(r1, r2) ==
    /\ req[r1].endpoint = req[r2].endpoint
    /\ req[r1].image = req[r2].image
    /\ req[r1].path = req[r2].path

\* a response with its alternatives left out
WithoutAlternatives(response) == [response EXCEPT !.alternatives = <<>>]

\* C2: a failure of the primary lookup always ends the request with a 500; a
\* failure of the alternatives search never does: the request ends with
\* status "success" and alternatives = [], every other field being what it
\* is for a request with the same input and the same primary reply whose
\* search succeeded.
C2_TwoTierFailurePolicy ==
    /\ \A r \in Reqs :
          Done(r) /\ net[r] # <<>> =>
              /\ Failed(Replied(r, 1)) => Http(r) = 500
              /\ Len(net[r]) = 2 /\ Failed(Replied(r, 2)) =>
                    /\ Http(r) = 200
                    /\ Body(r).status = "success"
                    /\ Body(r).alternatives = <<>>
    /\ \A r1, r2 \in Reqs :
          /\ Done(r1) /\ Done(r2) /\ SameInput(r1, r2)
          /\ Len(net[r1]) = 2 /\ Len(net[r2]) = 2
          /\ net[r1][1] = net[r2][1]
          /\ Failed(Replied(r1, 2)) /\ ~Failed(Replied(r2, 2))
          => /\ Http(r1) = 200 /\ Http(r2) = 200
             /\ WithoutAlternatives(Body(r1)) = WithoutAlternatives(Body(r2))

\* of two requests with the same input and primary reply, one search failed
\* and the other returned alternatives
C2_Witness ==
    \E r1, r2 \in Reqs :
        /\ Done(r1) /\ Done(r2) /\ SameInput(r1, r2)
        /\ Len(net[r1]) = 2 /\ Len(net[r2]) = 2
        /\ net[r1][1] = net[r2][1]
        /\ Failed(Replied(r1, 2)) /\ ~Failed(Replied(r2, 2))
        /\ Body(r1).alternatives = <<>> /\ Body(r2).alternatives # <<>>

\* what a handler returns when it runs alone, from the first statement to the
\* last, on an input and the replies its calls meet
AloneAfterLookup(endpoint, gtin, calls) ==
    LET data == Val(calls[1].reply)
    IN  IF data.kind # "json"
        THEN HTTPException(500, "Failed to fetch product data")
        ELSE IF NotFound(data)
        THEN Returned(IF endpoint = "scan" THEN ScanNotFoundResponse(gtin)
                      ELSE GetNotFoundResponse(gtin))
        ELSE LET product == Val(data.product)
                 l == Scored(endpoint, product)
                 alternatives ==
                     IF l.is_high_carbon
                     THEN fetch_alternatives(product.categories,
                              Get(product.ecoscore_grade, <<>>),
                              IF Len(calls) = 2 THEN Val(calls[2].reply)
                              ELSE Failure("unasked"))
                     ELSE <<>>
             IN  Returned(SuccessResponse(gtin, product, l.carbon_footprint,
                              l.carbon_unit, l.is_high_carbon, l.recommendations,
                              alternatives))

Alone(f, calls) ==
    IF f.endpoint = "scan"
    THEN IF f.image.kind = "empty" THEN HTTPException(400, "Empty image file")
         ELSE IF IsNone(extract_gtin_from_image(f.image)) THEN Returned(NoBarcodeResponse)
         ELSE AloneAfterLookup("scan", Val(extract_gtin_from_image(f.image)), calls)
    ELSE IF ~isdigit(f.path) \/ Len(f.path) \notin GtinLengths
         THEN HTTPException(400, "Invalid barcode format")
         ELSE AloneAfterLookup("get", f.path, calls)

\* C9: requests handled at the same time and interleaved at their awaits are
\* isolated: each one's result is what it returns running alone on the same
\* input and the same upstream replies, and a step of one request leaves the
\* frame and the calls of every other request as they were.
C9_RequestIsolation ==
    /\ [](\A r \in Reqs : Done(r) => req[r].result = Alone(req[r], net[r]))
    /\ [][\E r \in Reqs : \A q \in Reqs \ {r} :
              req'[q] = req[q] /\ net'[q] = net[q]]_vars

\* two requests handled at the same time both ran to success, with
\* different recommendations and different alternatives
C9_Witness ==
    \E r1, r2 \in Reqs :
        /\ Done(r1) /\ Http(r1) = 200 /\ Body(r1).status = "success"
        /\ Body(r1).alternatives # <<>>
        /\ Done(r2) /\ Http(r2) = 200 /\ Body(r2).status = "success"
        /\ Len(net[r2]) = 2
        /\ Body(r1).recommendations # Body(r2).recommendations
        /\ Body(r1).alternatives # Body(r2).alternatives

\* C10: the two entry points converge.  A scan whose image decodes to b and a
\* fetch of b that meet the same upstream replies return results that agree
\* on every field.
C10_EntryPointsConverge ==
    \A r1, r2 \in Reqs :
        /\ Done(r1) /\ Done(r2)
        /\ req[r1].endpoint = "scan" /\ req[r2].endpoint = "get"
        /\ extract_gtin_from_image(req[r1].image) = Some(req[r2].path)
        /\ net[r1] = net[r2]
        => req[r1].result = req[r2].result

\* the score C5 gives a grade: a 95, b 80, c 65, d 45, e 20, anything else 50
\* (the letter in either case)
GradeScore(grade) ==
    CASE grade \in {<<"a">>, <<"A">>} -> 95
      [] grade \in {<<"b">>, <<"B">>} -> 80
      [] grade \in {<<"c">>, <<"C">>} -> 65
      [] grade \in {<<"d">>, <<"D">>} -> 45
      [] grade \in {<<"e">>, <<"E">>} -> 20
      [] OTHER -> 50

\* the places, among the first five results, of the candidates that score
\* strictly more than the current product
Qualifying(products, current) ==
    {i \in 1..Min(5, Len(products)) :
        GradeScore(Get(products[i].ecoscore_grade, <<>>)) > GradeScore(current)}

\* the k-th smallest element of a set of numbers
Kth(S, k) == CHOOSE i \in S : Cardinality({j \in S : j < i}) = k - 1

\* C5: fetch_alternatives returns exactly the first at-most-3 candidates, in
\* search-result order, among the first 5 results whose score is strictly
\* greater than the current product's (unknown or missing grades score 50);
\* so every alternative scores more than the current product, there are at
\* most 3, and there are none when the category is absent.
C5_AlternativesRanking ==
    fnOut.done /\ fnIn \in AltInputs =>
        LET out == fnOut.value
            products == Get(fnIn.reply.products, <<>>)
            q == Qualifying(products, fnIn.current_eco_score)
        IN  /\ Len(out) <= 3
            /\ \A k \in DOMAIN out :
                  GradeScore(out[k].eco_score) > GradeScore(fnIn.current_eco_score)
            /\ fnIn.category = None => out = <<>>
            /\ fnIn.category \notin {None, Some(<<>>)} /\ fnIn.reply.kind = "json" =>
                  /\ Len(out) = Min(3, Cardinality(q))
                  /\ \A k \in DOMAIN out :
                        /\ out[k].gtin = products[Kth(q, k)].code
                        /\ out[k].eco_score = Get(products[Kth(q, k)].ecoscore_grade, <<>>)
                        /\ out[k].name = Get(products[Kth(q, k)].product_name, <<"Unknown">>)
                        /\ out[k].brand = Get(products[Kth(q, k)].brands, <<"Unknown">>)
                        /\ out[k].image_url = products[Kth(q, k)].image_front_small_url

\* six results for a product of grade c: the first does not qualify, four of
\* the next four do, the sixth would; the second, third and fourth are returned
C5_Witness ==
    /\ fnOut.done /\ fnIn \in AltInputs
    /\ fnIn.current_eco_score = <<"c">> /\ fnIn.category = Some(TeaCategory)
    /\ fnIn.reply.kind = "json" /\ Len(Get(fnIn.reply.products, <<>>)) = 6
    /\ Qualifying(Val(fnIn.reply.products), <<"c">>) = {2, 3, 4, 5}
    /\ Val(fnIn.reply.products)[6].ecoscore_grade = Some(<<"a">>)
    /\ Len(fnOut.value) = 3
    /\ fnOut.value[1].gtin = Some(<<"2">>) /\ fnOut.value[3].gtin = Some(<<"4">>)

\* the tags drawn that contain "plastic" in some case, listed by hand
PlasticTags == {PlasticWrap, <<"e", "n", ":", "P", "L", "A", "S", "T", "I", "C">>}

\* the rule an entry comes from, by its icon and the start of its text
RuleOf(entry) ==
    CASE entry.icon = "globe" -> "carbon"
      [] entry.icon = "seedling" -> "eco low"
      [] entry.icon = "check" /\ entry.text[1] = "Good environmental score! This product has lower environmental impact" -> "eco good"
      [] entry.icon = "heart" -> "nutrition"
      [] entry.icon = "recycle" -> "packaging"
      [] entry.icon = "check" /\ entry.text[1] = "This product has acceptable sustainability metrics" -> "default"
      [] OTHER -> "?"

Entry(fires, rule, priority) == IF fires THEN <<<<rule, priority>>>> ELSE <<>>

\* C6: generate_recommendations returns a non-empty sequence; each of the
\* four rules contributes at most one entry, in the order carbon (high, iff
\* the figure is above 2.0), eco grade (high for d/e, low for a/b),
\* nutrition grade (medium for d/e), packaging (medium iff a tag contains
\* "plastic" in any case); the default low entry is there if and only if no
\* rule fired, and then alone.
C6_RecommendationShape ==
    fnOut.done /\ fnIn \in RecInputs =>
        LET out == fnOut.value
            eco == Get(fnIn.product_data.ecoscore_grade, <<>>)
            nutri == Get(fnIn.product_data.nutriscore_grade, <<>>)
            tags == Get(fnIn.product_data.packaging_tags, <<>>)
            rules ==
                Entry(fnIn.carbon_footprint > 200, "carbon", "high")
                    \o Entry(eco \in {<<"d">>, <<"e">>}, "eco low", "high")
                    \o Entry(eco \in {<<"a">>, <<"b">>}, "eco good", "low")
                    \o Entry(nutri \in {<<"d">>, <<"e">>}, "nutrition", "medium")
                    \o Entry(\E i \in DOMAIN tags : tags[i] \in PlasticTags,
                             "packaging", "medium")
        IN  /\ out # <<>>
            /\ [i \in DOMAIN out |-> <<RuleOf(out[i]), out[i].priority>>] =
                  IF rules = <<>> THEN <<<<"default", "low">>>> ELSE rules
            /\ ~(\E i, j \in DOMAIN out :
                    RuleOf(out[i]) = "eco low" /\ RuleOf(out[j]) = "eco good")

\* co2 3.5, grade d, packaging ["Plastic wrap"], no nutrition grade: exactly
\* high (carbon), high (eco), medium (packaging)
C6_Witness ==
    /\ fnOut.done /\ fnIn \in RecInputs
    /\ fnIn.carbon_footprint = 350
    /\ fnIn.product_data.ecoscore_grade = Some(<<"d">>)
    /\ fnIn.product_data.nutriscore_grade = None
    /\ fnIn.product_data.packaging_tags = Some(<<PlasticWrap>>)
    /\ [i \in DOMAIN fnOut.value |-> fnOut.value[i].priority] = <<"high", "high", "medium">>
    /\ fnOut.value[1].text = <<"High carbon footprint (", "3", ".", "5", "0", " kg CO2e). Consider eco-friendly alternatives below.">>

====
